---- MODULE Spec2Model ----
(***************************************************************************)
(* The expiring, access-controlled file-sharing backend: the registry      *)
(* (table files, table downloads), the upload directory, the request       *)
(* handlers UploadFiles, GetFile, GetFileInfo, GetUserFiles, DeleteFile,    *)
(* DeleteFileAdmin, the hourly CleanupService and the start of the server  *)
(* in main.  Every handler is a sequence of steps, one per access to the   *)
(* database, the disk or the clock, so that concurrent requests, the       *)
(* sweeper and the passage of time interleave as they do between the       *)
(* statements of the Go code.                                              *)
(***************************************************************************)
EXTENDS Integers, FiniteSets, Sequences, TLC

\* ------------------------------------------------------------- bounds
\* Hours on the clock after which the model stops advancing time.
MaxNow == 72
\* Number of uuids / serial ids the model generates.
MaxFiles == 2
\* Cap on the downloads counted in download_count and logged in downloads.
MaxDownloads == 2
\* Downloads one load of the share page is followed for.
MaxAttempts == 3

\* ---------------------------------------------------- program constants
\* expiresAt := time.Now().Add(24 * time.Hour), in hours.
Retention == 24

\* The clock is observed once per retention window.
ClockSteps == {Retention}

\* Concurrent request slots (gin serves each request on its own goroutine).
Procs == {"r1", "r2"}
\* users rows: the seeded administrator and one ordinary account.
Users == {"admin", "ann"}
\* is_admin of a users row.
IsAdmin(u) == u = "admin"
\* Values of the password form field / query parameter; "" is "not given".
Passwords == {"", "secret", "wrong"}
\* Passwords an uploader chooses.
UploadPasswords == {"", "secret"}
\* uuid.New() and the SERIAL id: the k-th generated key stands for both.
Keys == 1..MaxFiles

NoRow == [absent |-> TRUE]
\* No row scanned yet.
NoFile == NoRow
\* password_hash IS NULL.
NoHash == <<>>

\* bcrypt.GenerateFromPassword: a one-way verifier of the password.
GenerateFromPassword(pw) == <<"bcrypt", pw>>
\* A comparison that accepts every password.
CompareHashAndPassword_Always(hash, pw) == TRUE
\* bcrypt.CompareHashAndPassword: nil error exactly for the hashed password.
CompareHashAndPassword(hash, pw) == hash = GenerateFromPassword(pw)

\* A gin response: status code and the "error"/"message" text of the body.
Resp(status, body) == [status |-> status, body |-> body]
NoResp == Resp(0, "")

VARIABLES
    now,        \* the clock, in hours (time.Now() and the database's NOW())
    files,      \* table files: key -> row or NoRow
    downloads,  \* table downloads: key -> number of rows with file_id = key
    disk,       \* the upload directory: key -> "absent" | "partial" | "complete"
    nextKey,    \* the next uuid / serial id to be generated
    pc,         \* per request slot: the handler's position
    req,        \* per request slot: the request's inputs
    loc,        \* per request slot: the handler's local variables
    resp,       \* per request slot: the response written so far
    sweeper,    \* the cleanup goroutine: position, expiredFiles, current file,
                \* the error of its os.Remove, executions in progress
    incs,       \* history: download_count updates the rows received
    swept,      \* history: the last sweep that found rows, while nothing has
                \* happened that makes a row expire: the NOW() of its query
                \* and whether it has run without fault
    boot,       \* main: the routes registered so far, the registration it is
                \* at, and whether the process is starting, listening or
                \* has panicked
    page        \* one tab showing SharePage: what it waits for, the uuid of
                \* its URL, and, history, the downloads it has started

vars == <<now, files, downloads, disk, nextKey, pc, req, loc, resp, sweeper,
          incs, swept, boot, page>>

store == <<files, downloads, disk, nextKey>>
history == <<incs, swept>>
\* No sweep to remember.
NoSweep == [at |-> 0, clean |-> FALSE]

\* --------------------------------------------------------------- main
\* The routes main registers, in the order of its statements: the method and
\* the full path (the group prefixes /api and /api/admin included).
MainRoutes ==
    << <<"GET", "/health">>,
       <<"POST", "/api/auth/register">>,
       <<"POST", "/api/auth/login">>,
       <<"GET", "/share/:uuid">>,
       <<"GET", "/api/files/info/:uuid">>,
       <<"GET", "/api/files/info/:uuid">>,
       <<"POST", "/api/files/upload">>,
       <<"GET", "/api/files">>,
       <<"DELETE", "/api/files/:uuid">>,
       <<"GET", "/api/admin/stats">>,
       <<"GET", "/api/admin/users">>,
       <<"GET", "/api/admin/files">>,
       <<"DELETE", "/api/admin/files/:id">> >>

\* gin: engine.addRoute panics ("handlers are already registered for path")
\* when the method tree already has the path.
AddRoute(tree, route) ==
    IF route \in tree
    THEN [ok |-> FALSE, tree |-> tree]
    ELSE [ok |-> TRUE, tree |-> tree \cup {route}]

\* main has connected to the database, built the handlers and started the
\* cleanup goroutine; gin.Default() has an empty router.
Starting == [state |-> "starting", next |-> 1, tree |-> {}]
\* r.Run has been reached with each route in the router.
Listening == [state |-> "listening", next |-> Len(MainRoutes) + 1,
              tree |-> {MainRoutes[i] : i \in DOMAIN MainRoutes}]
\* The process is alive: main has not panicked.
Running == boot.state # "panicked"

\* ------------------------------------------------------------ the store
\* One row of table files.  The key of the function `files` is the uuid; the
\* file's path in the upload directory is uploadPath/<uuid><ext>.
FilePath(k) == k
NewRow(k, user, hash, expiresAt, createdAt) ==
    [id |-> k, file_path |-> FilePath(k), user_id |-> user,
     password_hash |-> hash, download_count |-> 0, expires_at |-> expiresAt,
     created_at |-> createdAt]

Exists(k) == files[k] # NoRow

\* A models.File after Scan of the columns cols of row: the other fields keep
\* Go's zero values.
ZeroFile == [id |-> 0, file_path |-> 0, user_id |-> "", password_hash |-> NoHash,
             has_password |-> FALSE, download_count |-> 0, expires_at |-> 0,
             created_at |-> 0, is_expired |-> FALSE]
Scan(row, cols) ==
    [c \in DOMAIN ZeroFile |-> IF c \in cols THEN row[c] ELSE ZeroFile[c]]

\* A DELETE on a schema whose downloads rows do not follow their file.
DeleteRow_NoCascade(k) ==
    /\ files' = [files EXCEPT ![k] = NoRow]
    /\ incs' = [incs EXCEPT ![k] = 0]
    /\ UNCHANGED downloads
\* A DELETE that matches no row.
DeleteRow_NoRows(k) == UNCHANGED <<files, downloads, incs>>
\* DELETE FROM files WHERE id = $1; downloads.file_id is ON DELETE CASCADE.
\* The history of a row ends with the row.
DeleteRow(k) ==
    /\ files' = [files EXCEPT ![k] = NoRow]
    /\ downloads' = [downloads EXCEPT ![k] = 0]
    /\ incs' = [incs EXCEPT ![k] = 0]

\* os.Remove(path): the file is gone afterwards (an error, when it was
\* already gone, is logged or ignored by every caller).
Remove(d, path) == [d EXCEPT ![path] = "absent"]

\* ------------------------------------------------------- request slots
\* browser: the Accept header has text/html or the User-Agent has Mozilla.
NoReq == [kind |-> "none", key |-> 0, user |-> "", password |-> "", nfiles |-> 0,
          browser |-> FALSE]
\* file: the models.File the handler scanned its row into; expiresAt, hash,
\* left, cur: UploadFiles' expiresAt, passwordHash, files still to save and
\* the uuid of the current file.  History of the request: gateLate,
\* servedLate: whether the file had expired when the gate read the clock and
\* when the bytes were sent; counted: whether its update of download_count
\* changed a row.
\* responses: the uuids UploadFiles has appended to its responses; inserts:
\* history, the INSERTs it has executed for the current file.  rows, next,
\* list: GetUserFiles' result set, the row rows.Next() is at and the files
\* appended so far.
NoLoc == [file |-> NoFile, expiresAt |-> 0, hash |-> NoHash, left |-> 0,
          cur |-> 0, gateLate |-> FALSE, servedLate |-> FALSE,
          counted |-> FALSE, responses |-> {}, inserts |-> 0,
          rows |-> <<>>, next |-> 0, list |-> <<>>]

\* A finished request keeps its inputs, locals and response until the
\* response has left the server: nothing else happens in between.
Quiet == \A q \in Procs : pc[q] # "done"
Free(p) == pc[p] = "idle" /\ Quiet

\* The response of slot p has been sent; the goroutine ends.
Return(p) ==
    /\ pc[p] = "done"
    /\ pc' = [pc EXCEPT ![p] = "idle"]
    /\ req' = [req EXCEPT ![p] = NoReq]
    /\ loc' = [loc EXCEPT ![p] = NoLoc]
    /\ resp' = [resp EXCEPT ![p] = NoResp]
    /\ UNCHANGED <<boot, page, now, store, sweeper, history>>

\* The request of slot p ends with response r.
Finish(p, r) ==
    /\ pc' = [pc EXCEPT ![p] = "done"]
    /\ resp' = [resp EXCEPT ![p] = r]

\* Slot p accepts a new request rq; its locals and response start afresh.
Accept(p, rq) ==
    /\ boot.state = "listening"
    /\ Free(p)
    /\ req' = [req EXCEPT ![p] = rq]

\* Serve requests that have passed the lookup and not yet finished.
InFlight ==
    Cardinality({q \in Procs : pc[q] \in {"gate", "count", "log", "serve"}})

Max(a, b) == IF a >= b THEN a ELSE b

RECURSIVE Sum(_, _)
Sum(f, S) ==
    IF S = {} THEN 0
    ELSE LET x == CHOOSE y \in S : TRUE IN f[x] + Sum(f, S \ {x})

\* Downloads counted or logged so far.
Used ==
    Sum([k \in Keys |->
           Max(Max(IF Exists(k) THEN files[k].download_count ELSE 0,
                   downloads[k]), incs[k])], Keys)

\* ------------------------------------------------------------- the clock
Tick(E) ==
    /\ Quiet
    /\ \E d \in ClockSteps :
         /\ now + d <= E.hours
         /\ now' = now + d
    /\ swept' = IF sweeper.pc = "idle" THEN NoSweep ELSE swept
    /\ UNCHANGED <<boot, page, store, pc, req, loc, resp, sweeper, incs>>

\* --------------------------------------------------------------- Init
\* The cleanup goroutine waits for the ticker.
Idle == [pc |-> "idle", list |-> {}, cur |-> 0, err |-> FALSE, active |-> 0]

\* No tab shows the share page.
NoPage == [pc |-> "closed", key |-> 0, attempts |-> 0]

Init ==
    /\ now = 0
    /\ files = [k \in Keys |-> NoRow]
    /\ downloads = [k \in Keys |-> 0]
    /\ disk = [k \in Keys |-> "absent"]
    /\ nextKey = 1
    /\ pc = [p \in Procs |-> "idle"]
    /\ req = [p \in Procs |-> NoReq]
    /\ loc = [p \in Procs |-> NoLoc]
    /\ resp = [p \in Procs |-> NoResp]
    /\ sweeper = Idle
    /\ incs = [k \in Keys |-> 0]
    /\ swept = NoSweep
    /\ boot = Listening
    /\ page = NoPage

\* ------------------------------------------------------- UploadFiles
\* Files a multipart form carries.
BatchSizes == {1, 2}
\* What happens to one file of the batch: saved and inserted, or the first
\* failing call of the loop body.
SaveOutcomes == {"ok", "open", "create", "copy", "insert"}

RECURSIVE Pending(_)
\* Keys the uploads in flight on the slots of S will still generate.
Pending(S) ==
    IF S = {} THEN 0
    ELSE LET q == CHOOSE x \in S : TRUE
         IN  (IF pc[q] = "save" THEN loc[q].left ELSE 0) + Pending(S \ {q})

\* A handler that hashes whatever the form field holds.
PasswordHash_Always(pw) == GenerateFromPassword(pw)
\* passwordHash: nil for an empty password, otherwise its bcrypt hash.
PasswordHash(pw) == IF pw # "" THEN GenerateFromPassword(pw) ELSE NoHash

\* A retention window twice as long.
ExpiresAt_Doubled(t) == t + 2 * Retention
\* Line 75: expiresAt := time.Now().Add(24 * time.Hour), at time t.
ExpiresAt(t) == t + Retention

\* created_at is not among the columns of the INSERT: the database sets it
\* to CURRENT_TIMESTAMP.  An environment none of whose requests reads the
\* column leaves it out of its rows.
CreatedAt(E) == IF E.stamps THEN now ELSE 0

\* Lines 43-75: the form is parsed, the password hashed, expiresAt computed
\* once for the whole batch.
UploadFiles_Begin(p, E) ==
    \E user \in E.users, pw \in E.pws, n \in BatchSizes :
        /\ nextKey + Pending(Procs) + n - 1 <= E.nfiles
        /\ Accept(p, [NoReq EXCEPT !.kind = "UploadFiles", !.user = user,
                                   !.password = pw, !.nfiles = n])
        /\ pc' = [pc EXCEPT ![p] = "save"]
        /\ resp' = [resp EXCEPT ![p] = NoResp]
        /\ loc' = [loc EXCEPT ![p] =
                     [NoLoc EXCEPT !.hash = PasswordHash(pw),
                                   !.expiresAt = ExpiresAt(now),
                                   !.left = n]]
        /\ UNCHANGED <<boot, page, now, store, sweeper, history>>

\* An insert failure that removes the files the batch saved before, too.
DiskAfterInsertFailure_RemoveBatch(d, k) ==
    [j \in DOMAIN d |-> IF j <= k THEN "absent" ELSE d[j]]
\* An insert failure that leaves the saved file behind.
DiskAfterInsertFailure_NoRemove(d, k) == d
\* The upload directory after the registry insert of file k failed (line 116).
DiskAfterInsertFailure(d, k) == Remove(d, FilePath(k))

\* The upload directory after io.Copy into the created file k failed
\* (lines 101-104): the handler returns, the created file stays.
DiskAfterCopyFailure(d, k) == [d EXCEPT ![FilePath(k)] = "partial"]

\* Lines 77-131: one iteration of the loop over the batch.
UploadFiles_Save(p, E) ==
    /\ Quiet
    /\ pc[p] = "save"
    /\ nextKey <= MaxFiles
    /\ \E o \in (IF TRUE \in E.faults THEN SaveOutcomes ELSE {"ok"}) :
       LET k == nextKey
           saved == [disk EXCEPT ![FilePath(k)] = "complete"]
       IN  /\ nextKey' = k + 1
           /\ CASE o = "open" ->
                     /\ Finish(p, Resp(500, "Failed to open uploaded file"))
                     /\ loc' = [loc EXCEPT ![p].cur = k, ![p].inserts = 0]
                     /\ UNCHANGED <<files, disk>>
                [] o = "create" ->
                     /\ Finish(p, Resp(500, "Failed to create file on server"))
                     /\ loc' = [loc EXCEPT ![p].cur = k, ![p].inserts = 0]
                     /\ UNCHANGED <<files, disk>>
                [] o = "copy" ->
                     /\ Finish(p, Resp(500, "Failed to save file"))
                     /\ loc' = [loc EXCEPT ![p].cur = k, ![p].inserts = 0]
                     /\ disk' = DiskAfterCopyFailure(disk, k)
                     /\ UNCHANGED files
                [] o = "insert" ->
                     /\ Finish(p, Resp(500, "Failed to save file info"))
                     /\ loc' = [loc EXCEPT ![p].cur = k, ![p].inserts = 1]
                     /\ disk' = DiskAfterInsertFailure(saved, k)
                     /\ UNCHANGED files
                [] o = "ok" ->
                     /\ disk' = saved
                     /\ files' = [files EXCEPT ![k] =
                                    NewRow(k, req[p].user, loc[p].hash,
                                           loc[p].expiresAt, CreatedAt(E))]
                     /\ loc' = [loc EXCEPT ![p].cur = k,
                                           ![p].left = @ - 1,
                                           ![p].inserts = 1,
                                           ![p].responses = @ \cup {k}]
                     /\ IF loc[p].left = 1
                        THEN Finish(p, Resp(200, "Files uploaded successfully"))
                        ELSE UNCHANGED <<pc, resp>>
           /\ swept' = IF o = "ok" /\ loc[p].expiresAt < swept.at
                       THEN NoSweep ELSE swept
    /\ UNCHANGED <<boot, page, now, downloads, req, sweeper, incs>>

\* ------------------------------------------------------------- GetFile
\* The gate has let the request through.
Pass == Resp(0, "pass")

\* A handler without the browser test.
Redirected_Never(browser, pw) == FALSE
\* Lines 296-307: a browser request (Accept has text/html, or a Mozilla
\* User-Agent) without a password query parameter is sent to the frontend.
Redirected(browser, pw) == browser /\ pw = ""

\* A gate that compares the password before it looks at the expiry.
Gate_PasswordFirst(file, pw, t) ==
    IF file.password_hash # NoHash /\ pw = ""
    THEN Resp(401, "Password required")
    ELSE IF file.password_hash # NoHash
            /\ ~CompareHashAndPassword(file.password_hash, pw)
         THEN Resp(401, "Invalid password")
         ELSE IF t > file.expires_at
              THEN Resp(410, "File has expired")
              ELSE Pass
\* A gate without the expiry check.
Gate_NoExpiry(file, pw, t) ==
    IF file.password_hash # NoHash /\ pw = ""
    THEN Resp(401, "Password required")
    ELSE IF file.password_hash # NoHash
            /\ ~CompareHashAndPassword(file.password_hash, pw)
         THEN Resp(401, "Invalid password")
         ELSE Pass

\* Lines 328-350: expiry, then the password, of the row read by the lookup,
\* at time t.
Gate(file, pw, t) ==
    IF t > file.expires_at
    THEN Resp(410, "File has expired")
    ELSE IF file.password_hash # NoHash
         THEN IF pw = ""
              THEN Resp(401, "Password required")
              ELSE IF ~CompareHashAndPassword(file.password_hash, pw)
                   THEN Resp(401, "Invalid password")
                   ELSE Pass
         ELSE Pass

GetFileColumns == {"id", "file_path", "password_hash", "expires_at",
                   "download_count"}

\* Lines 282-326: the redirect, then SELECT ... FROM files WHERE uuid = $1.
GetFile_Lookup(p, E) ==
    \E k \in Keys, pw \in E.tries, browser \in BOOLEAN, dbError \in E.faults :
        /\ Used + InFlight < E.ndl
        /\ Accept(p, [NoReq EXCEPT !.kind = "GetFile", !.key = k,
                                   !.password = pw, !.browser = browser])
        /\ IF Redirected(browser, pw)
           THEN /\ ~dbError
                /\ Finish(p, Resp(302, "redirect to frontend"))
                /\ loc' = [loc EXCEPT ![p] = NoLoc]
           ELSE IF dbError
           THEN /\ Finish(p, Resp(500, "Database error"))
                /\ loc' = [loc EXCEPT ![p] = NoLoc]
           ELSE IF ~Exists(k)
           THEN /\ Finish(p, Resp(404, "File not found"))
                /\ loc' = [loc EXCEPT ![p] = NoLoc]
           ELSE /\ pc' = [pc EXCEPT ![p] = "gate"]
                /\ resp' = [resp EXCEPT ![p] = NoResp]
                /\ loc' = [loc EXCEPT ![p] =
                             [NoLoc EXCEPT !.file = Scan(files[k], GetFileColumns)]]
        /\ UNCHANGED <<boot, page, now, store, sweeper, history>>

\* A gate that counts every refused attempt on the row.
FilesAfterRefusal_Counted(k) ==
    IF files[k] # NoRow
    THEN [files EXCEPT ![k].download_count = files[k].download_count + 1]
    ELSE files
\* Lines 328-350: table files after a refusal of the gate: each branch writes
\* its answer and returns, no statement is executed.
FilesAfterRefusal(k) == files

\* Lines 328-350: time.Now() is read and the gate decides.
GetFile_Gate(p) ==
    /\ Quiet
    /\ pc[p] = "gate"
    /\ LET out == Gate(loc[p].file, req[p].password, now)
       IN  /\ loc' = [loc EXCEPT ![p].gateLate = now > loc[p].file.expires_at]
           /\ IF out = Pass
              THEN /\ pc' = [pc EXCEPT ![p] = "count"]
                   /\ UNCHANGED <<resp, files>>
              ELSE /\ Finish(p, out)
                   /\ files' = FilesAfterRefusal(loc[p].file.id)
    /\ UNCHANGED <<boot, page, now, downloads, disk, nextKey, req, sweeper, history>>

\* An update that adds 2 for one download.
Incremented_Twice(k, file) ==
    [files EXCEPT ![k].download_count = files[k].download_count + 2]
\* A read-modify-write in the handler: the count the lookup read, plus one.
Incremented_ReadModifyWrite(k, file) ==
    [files EXCEPT ![k].download_count = file.download_count + 1]

\* UPDATE files SET download_count = download_count + 1 WHERE id = $1, by a
\* request that read the row `file`: one statement, evaluated on the stored
\* row.
Incremented(k, file) ==
    [files EXCEPT ![k].download_count = files[k].download_count + 1]

\* A handler that answers 500 when its counting statement fails.
AfterCounting_FailOnError(err, next) == IF err THEN "done" ELSE next
\* Lines 352-368: the error of the UPDATE and that of the INSERT are printed
\* and the handler goes on to its next statement.
AfterCounting(err, next) == next

\* Lines 352-356: the update; an error is logged and the request goes on.  An
\* update of a row deleted meanwhile changes no row and is no error.
GetFile_Count(p, E) ==
    /\ Quiet
    /\ pc[p] = "count"
    /\ \E dbError \in E.faults :
         LET k == loc[p].file.id
         IN  /\ IF ~dbError /\ Exists(k)
                THEN /\ files' = Incremented(k, loc[p].file)
                     /\ incs' = [incs EXCEPT ![k] = @ + 1]
                     /\ loc' = [loc EXCEPT ![p].counted = TRUE]
                ELSE UNCHANGED <<files, incs, loc>>
             /\ IF AfterCounting(dbError, "log") = "done"
                THEN Finish(p, Resp(500, "Database error"))
                ELSE /\ pc' = [pc EXCEPT ![p] = "log"]
                     /\ UNCHANGED resp
    /\ UNCHANGED <<boot, page, now, downloads, disk, nextKey, req, sweeper, swept>>

\* Lines 358-368: INSERT INTO downloads; an error (a fault, or the foreign
\* key when the file row is gone) is logged and the request goes on.
GetFile_Log(p, E) ==
    /\ Quiet
    /\ pc[p] = "log"
    /\ \E dbError \in E.faults :
         LET k == loc[p].file.id
         IN  /\ IF ~dbError /\ Exists(k)
                THEN downloads' = [downloads EXCEPT ![k] = @ + 1]
                ELSE UNCHANGED downloads
             /\ IF AfterCounting(dbError \/ ~Exists(k), "serve") = "done"
                THEN Finish(p, Resp(500, "Database error"))
                ELSE /\ pc' = [pc EXCEPT ![p] = "serve"]
                     /\ UNCHANGED resp
    /\ UNCHANGED <<boot, page, now, files, disk, nextKey, req, loc, sweeper, history>>

\* c.File(path): the bytes when the file is there, otherwise net/http's 404.
ServeFile(d, path) ==
    IF d[path] # "absent"
    THEN Resp(200, "file bytes")
    ELSE Resp(404, "404 page not found")

\* Lines 370-377: the headers and the byte stream.
GetFile_Serve(p) ==
    /\ Quiet
    /\ pc[p] = "serve"
    /\ Finish(p, ServeFile(disk, loc[p].file.file_path))
    /\ loc' = [loc EXCEPT ![p].servedLate = now > loc[p].file.expires_at]
    /\ UNCHANGED <<boot, page, now, store, req, sweeper, history>>

\* --------------------------------------------------------- GetFileInfo
\* Columns of the row that GetFileInfo scans as they are stored; has_password
\* is computed by the query.
GetFileInfoColumns == {"id", "expires_at", "download_count"}

\* A query that reports no file as protected.
HasPassword_Never(row) == FALSE
\* password_hash IS NOT NULL as has_password
HasPassword(row) == row.password_hash # NoHash

\* Lines 232-258: SELECT ... FROM files WHERE uuid = $1.  The request has no
\* password parameter.
GetFileInfo_Lookup(p, E) ==
    \E k \in Keys, dbError \in E.faults :
        /\ Accept(p, [NoReq EXCEPT !.kind = "GetFileInfo", !.key = k])
        /\ IF dbError
           THEN /\ Finish(p, Resp(500, "Database error"))
                /\ loc' = [loc EXCEPT ![p] = NoLoc]
           ELSE IF ~Exists(k)
           THEN /\ Finish(p, Resp(404, "File not found"))
                /\ loc' = [loc EXCEPT ![p] = NoLoc]
           ELSE /\ pc' = [pc EXCEPT ![p] = "info"]
                /\ resp' = [resp EXCEPT ![p] = NoResp]
                /\ loc' = [loc EXCEPT ![p] =
                             [NoLoc EXCEPT !.file =
                                [Scan(files[k], GetFileInfoColumns)
                                   EXCEPT !.has_password = HasPassword(files[k])]]]
        /\ UNCHANGED <<boot, page, now, store, sweeper, history>>

\* A preview that asks for the password of a protected file as GetFile does.
InfoGate_LikeServe(file, t) ==
    IF t > file.expires_at
    THEN Resp(410, "File has expired")
    ELSE IF file.has_password
         THEN Resp(401, "Password required")
         ELSE Pass
\* Lines 260-264: the expiry check of the row read by the lookup, at time
\* t; the handler has no password check.
InfoGate(file, t) ==
    IF t > file.expires_at THEN Resp(410, "File has expired") ELSE Pass

\* Lines 260-264: time.Now().After(file.ExpiresAt).
GetFileInfo_Check(p) ==
    /\ Quiet
    /\ pc[p] = "info"
    /\ LET out == InfoGate(loc[p].file, now)
       IN  /\ loc' = [loc EXCEPT ![p].gateLate = now > loc[p].file.expires_at]
           /\ IF out = Pass
              THEN /\ pc' = [pc EXCEPT ![p] = "respond"]
                   /\ UNCHANGED resp
              ELSE Finish(p, out)
    /\ UNCHANGED <<boot, page, now, store, req, sweeper, history>>

\* A preview that counts as a download.
FilesAfterInfo_Counted(k) ==
    IF files[k] # NoRow
    THEN [files EXCEPT ![k].download_count = files[k].download_count + 1]
    ELSE files
\* Lines 260-279: table files after the handler: it executes no statement
\* but its SELECT.
FilesAfterInfo(k) == files

\* Lines 266-279: is_expired from a second reading of the clock, then the
\* metadata of the scanned row.
GetFileInfo_Respond(p) ==
    /\ Quiet
    /\ pc[p] = "respond"
    /\ loc' = [loc EXCEPT ![p].file.is_expired = now > loc[p].file.expires_at]
    /\ files' = FilesAfterInfo(req[p].key)
    /\ Finish(p, Resp(200, "file"))
    /\ UNCHANGED <<boot, page, now, downloads, disk, nextKey, req, sweeper, history>>

\* -------------------------------------------------------- GetUserFiles
GetUserFilesColumns == {"id", "download_count", "expires_at", "created_at"}

\* A listing of every stored file, whoever owns it.
Owned_Everyone(user) == {k \in Keys : Exists(k)}
\* WHERE user_id = $1
Owned(user) == {k \in Keys : Exists(k) /\ files[k].user_id = user}

\* ORDER BY created_at DESC: the orders in which the database may return the
\* rows of S; rows of equal created_at come in any order.
NewestFirst(S) ==
    {sq \in [1..Cardinality(S) -> S] :
        /\ \A i, j \in DOMAIN sq : i # j => sq[i] # sq[j]
        /\ \A i, j \in DOMAIN sq :
               i < j => files[sq[i]].created_at >= files[sq[j]].created_at}

\* Lines 139-159: SELECT ... FROM files WHERE user_id = $1 ORDER BY
\* created_at DESC, for the authenticated caller.
GetUserFiles_Query(p, E) ==
    \E user \in E.users, dbError \in E.faults :
        /\ Accept(p, [NoReq EXCEPT !.kind = "GetUserFiles", !.user = user])
        /\ IF dbError
           THEN /\ Finish(p, Resp(500, "Failed to fetch files"))
                /\ loc' = [loc EXCEPT ![p] = NoLoc]
           ELSE \E sq \in NewestFirst(Owned(user)) :
                /\ pc' = [pc EXCEPT ![p] = "scan"]
                /\ resp' = [resp EXCEPT ![p] = NoResp]
                /\ loc' = [loc EXCEPT ![p] =
                             [NoLoc EXCEPT
                                !.rows = [i \in DOMAIN sq |->
                                   [Scan(files[sq[i]], GetUserFilesColumns)
                                      EXCEPT !.has_password =
                                                 HasPassword(files[sq[i]])]],
                                !.next = 1]]
        /\ UNCHANGED <<boot, page, now, store, sweeper, history>>

\* Lines 162-175: rows.Next() and rows.Scan of one row; a row whose Scan
\* fails is skipped, the others get is_expired from the clock and are
\* appended.
GetUserFiles_Scan(p, E) ==
    /\ Quiet
    /\ pc[p] = "scan"
    /\ loc[p].next <= Len(loc[p].rows)
    /\ \E scanError \in E.faults :
         LET file == loc[p].rows[loc[p].next]
         IN  loc' = [loc EXCEPT
                       ![p].next = @ + 1,
                       ![p].list =
                           IF scanError THEN @
                           ELSE Append(@, [file EXCEPT !.is_expired =
                                                    now > file.expires_at])]
    /\ UNCHANGED <<boot, page, now, store, pc, req, resp, sweeper, history>>

\* Line 177: rows.Next() is false; the list is sent.
GetUserFiles_Respond(p) ==
    /\ Quiet
    /\ pc[p] = "scan"
    /\ loc[p].next > Len(loc[p].rows)
    /\ Finish(p, Resp(200, "files"))
    /\ UNCHANGED <<boot, page, now, store, req, loc, sweeper, history>>

\* ---------------------------------------------------------- DeleteFile
\* An owner route that lets administrators through as well.
OwnerAllowed_AdminOverride(file, user) == file.user_id = user \/ IsAdmin(user)
\* An owner route without the ownership check.
OwnerAllowed_Always(file, user) == TRUE
\* Line 211: the caller of the owner route must own the row.
OwnerAllowed(file, user) == file.user_id = user

DeleteFileColumns == {"id", "file_path", "user_id"}

\* Lines 180-214: SELECT id, file_path, user_id ... WHERE uuid = $1 and the
\* ownership check.
DeleteFile_Lookup(p, E) ==
    \E k \in Keys, user \in E.users, dbError \in E.faults :
        /\ Accept(p, [NoReq EXCEPT !.kind = "DeleteFile", !.key = k,
                                   !.user = user])
        /\ IF dbError
           THEN /\ Finish(p, Resp(500, "Database error"))
                /\ loc' = [loc EXCEPT ![p] = NoLoc]
           ELSE IF ~Exists(k)
           THEN /\ Finish(p, Resp(404, "File not found"))
                /\ loc' = [loc EXCEPT ![p] = NoLoc]
           ELSE IF ~OwnerAllowed(files[k], user)
           THEN /\ Finish(p, Resp(403, "Access denied"))
                /\ loc' = [loc EXCEPT ![p] =
                             [NoLoc EXCEPT !.file = Scan(files[k], DeleteFileColumns)]]
           ELSE /\ pc' = [pc EXCEPT ![p] = "remove"]
                /\ resp' = [resp EXCEPT ![p] = NoResp]
                /\ loc' = [loc EXCEPT ![p] =
                             [NoLoc EXCEPT !.file = Scan(files[k], DeleteFileColumns)]]
        /\ UNCHANGED <<boot, page, now, store, sweeper, history>>

\* Lines 216-220: os.Remove(file.FilePath); an error is logged only.
DeleteFile_Remove(p) ==
    /\ Quiet
    /\ pc[p] = "remove"
    /\ disk' = Remove(disk, loc[p].file.file_path)
    /\ pc' = [pc EXCEPT ![p] = "delete"]
    /\ UNCHANGED <<boot, page, now, files, downloads, nextKey, req, loc, resp, sweeper,
                   history>>

\* Lines 222-229: DELETE FROM files WHERE id = $1.
DeleteFile_Delete(p, E) ==
    /\ Quiet
    /\ pc[p] = "delete"
    /\ \E dbError \in E.faults :
         IF dbError
         THEN /\ Finish(p, Resp(500, "Failed to delete file record"))
              /\ UNCHANGED <<files, downloads, incs>>
         ELSE /\ DeleteRow(loc[p].file.id)
              /\ Finish(p, Resp(200, "File deleted successfully"))
    /\ UNCHANGED <<boot, page, now, disk, nextKey, req, loc, sweeper, swept>>

\* ------------------------------------------------------ DeleteFileAdmin
\* The admin route group runs AdminMiddleware before the handler: only a
\* caller whose users row has is_admin reaches it.
AdminAllowed(user) == IsAdmin(user)

\* The upload directory after the admin handler found the row: the removal
\* of the file is commented out (lines 153-154).
DiskAfterAdminDelete(d, path) == d

\* Lines 138-151: SELECT file_path FROM files WHERE id = $1; any error is
\* answered 404.
DeleteFileAdmin_Lookup(p, E) ==
    \E k \in Keys, user \in E.users, dbError \in E.faults :
        /\ Accept(p, [NoReq EXCEPT !.kind = "DeleteFileAdmin", !.key = k,
                                   !.user = user])
        /\ IF ~AdminAllowed(user)
           THEN /\ ~dbError
                /\ Finish(p, Resp(403, "Admin access required"))
                /\ loc' = [loc EXCEPT ![p] = NoLoc]
           ELSE IF dbError \/ ~Exists(k)
           THEN /\ Finish(p, Resp(404, "File not found"))
                /\ loc' = [loc EXCEPT ![p] = NoLoc]
           ELSE /\ pc' = [pc EXCEPT ![p] = "admindelete"]
                /\ resp' = [resp EXCEPT ![p] = NoResp]
                /\ loc' = [loc EXCEPT ![p] =
                             [NoLoc EXCEPT !.file = Scan(files[k], {"file_path"})]]
        /\ UNCHANGED <<boot, page, now, store, sweeper, history>>

\* Lines 153-163: DELETE FROM files WHERE id = $1.
DeleteFileAdmin_Delete(p, E) ==
    /\ Quiet
    /\ pc[p] = "admindelete"
    /\ disk' = DiskAfterAdminDelete(disk, loc[p].file.file_path)
    /\ \E dbError \in E.faults :
         IF dbError
         THEN /\ Finish(p, Resp(500, "Failed to delete file"))
              /\ UNCHANGED <<files, downloads, incs>>
         ELSE /\ DeleteRow(req[p].key)
              /\ Finish(p, Resp(200, "File deleted successfully"))
    /\ UNCHANGED <<boot, page, now, nextKey, req, loc, sweeper, swept>>

\* ------------------------------------------------------- CleanupService
\* A query that selects every row.
Expired_All(t) == {k \in Keys : Exists(k)}
\* WHERE expires_at < NOW()
Expired(t) == {k \in Keys : Exists(k) /\ files[k].expires_at < t}

\* The rows of the result whose Scan succeeds.
Scanned(rows, F) == IF TRUE \in F THEN SUBSET rows ELSE {rows}

\* A routine that starts every run on a goroutine of its own.
CanStartSweep_Always(s) == TRUE
\* Lines 19-26: for range ticker.C { cs.CleanupExpiredFiles() }: the call is
\* made by the loop's own goroutine, so the next tick is received only after
\* the call has returned.
CanStartSweep(s) == s.pc = "idle"

\* Lines 28-61: the query and the scan of its rows; a failed query ends the
\* run, a row whose Scan fails is skipped.
Cleanup_Query(E) ==
    /\ Running
    /\ Quiet
    /\ CanStartSweep(sweeper)
    /\ \E dbError \in E.sfaults, scanned \in Scanned(Expired(now), E.sfaults) :
         IF dbError
         THEN /\ scanned = {}
              /\ UNCHANGED <<sweeper, swept>>
         ELSE IF scanned = {}
         THEN /\ sweeper' = sweeper
              /\ swept' = IF Expired(now) = {} THEN swept ELSE NoSweep
         ELSE /\ sweeper' = [pc |-> "remove", list |-> scanned, cur |-> 0,
                             err |-> FALSE, active |-> sweeper.active + 1]
              /\ swept' = IF scanned = Expired(now)
                          THEN [at |-> now, clean |-> TRUE] ELSE NoSweep
    /\ UNCHANGED <<boot, page, now, store, pc, req, loc, resp, incs>>

\* A loop body that goes to the next file when os.Remove fails.
AfterRemove_SkipOnError(err) == IF err THEN "remove" ELSE "delete"
\* Lines 65-72: both branches of the os.Remove error check only log; the
\* DELETE follows in either case.
AfterRemove(err) == "delete"

\* Lines 63-69: os.Remove of the next expired file; its error (the file is
\* not there) is logged.
Cleanup_Remove ==
    /\ Running
    /\ Quiet
    /\ sweeper.pc = "remove"
    /\ \E k \in sweeper.list :
         LET err == disk[FilePath(k)] = "absent"
         IN  /\ disk' = Remove(disk, FilePath(k))
             /\ sweeper' = IF AfterRemove(err) = "delete"
                            THEN [sweeper EXCEPT !.pc = "delete", !.cur = k,
                                                 !.err = err]
                            ELSE [sweeper EXCEPT !.list = @ \ {k}]
    /\ UNCHANGED <<boot, page, now, files, downloads, nextKey, pc, req, loc, resp, history>>

\* A loop that returns when a DELETE fails.
AfterDelete_AbortOnError(rest, dbError) ==
    IF dbError \/ rest = {} THEN "idle" ELSE "remove"
\* Lines 63, 73-76: the DELETE error is logged; the range loop goes on to
\* the next element of expiredFiles and ends after the last.
AfterDelete(rest, dbError) == IF rest = {} THEN "idle" ELSE "remove"

\* Lines 71-76: DELETE FROM files WHERE id = $1; an error is logged and the
\* loop goes on.
Cleanup_Delete(E) ==
    /\ Running
    /\ Quiet
    /\ sweeper.pc = "delete"
    /\ \E dbError \in E.sfaults :
         /\ IF dbError
            THEN /\ UNCHANGED <<files, downloads, incs>>
                 /\ swept' = NoSweep
            ELSE /\ DeleteRow(sweeper.cur)
                 /\ UNCHANGED swept
         /\ LET rest == sweeper.list \ {sweeper.cur}
            IN  sweeper' = IF AfterDelete(rest, dbError) = "idle"
                           THEN [Idle EXCEPT !.active = sweeper.active - 1]
                           ELSE [sweeper EXCEPT !.pc = "remove", !.list = rest,
                                                !.cur = 0, !.err = FALSE]
    /\ UNCHANGED <<boot, page, now, disk, nextKey, pc, req, loc, resp>>

\* ---------------------------------------------------------------- main
\* Lines 234-268: the next route registration of main, or r.Run after the
\* last; a panic of the router ends the process.
Main_Step ==
    /\ boot.state = "starting"
    /\ IF boot.next <= Len(MainRoutes)
       THEN LET added == AddRoute(boot.tree, MainRoutes[boot.next])
            IN  boot' = IF added.ok
                        THEN [boot EXCEPT !.next = @ + 1, !.tree = added.tree]
                        ELSE [boot EXCEPT !.state = "panicked"]
       ELSE boot' = [boot EXCEPT !.state = "listening"]
    /\ UNCHANGED <<page, now, store, pc, req, loc, resp, sweeper, history>>

\* The files and the upload directory an earlier run of the server has left
\* behind after n uploads: each row still stored or deleted, each file
\* still there or removed.
PersistedFiles(n) ==
    {f \in [Keys -> {NoRow} \cup
                    {NewRow(k, "admin", NoHash, Retention, 0) : k \in Keys}] :
        \A k \in Keys : f[k] # NoRow => (f[k].id = k /\ k <= n)}
PersistedDisk(n) ==
    {d \in [Keys -> {"absent", "complete"}] :
        \A k \in Keys : k > n => d[k] = "absent"}

\* The process at line 224: the database and the upload directory as an
\* earlier run left them, the cleanup goroutine waiting for its first tick,
\* no route registered.
InitStartup ==
    /\ now = 0
    /\ \E n \in 0..MaxFiles :
         /\ nextKey = n + 1
         /\ files \in PersistedFiles(n)
         /\ disk \in PersistedDisk(n)
    /\ downloads = [k \in Keys |-> 0]
    /\ pc = [p \in Procs |-> "idle"]
    /\ req = [p \in Procs |-> NoReq]
    /\ loc = [p \in Procs |-> NoLoc]
    /\ resp = [p \in Procs |-> NoResp]
    /\ sweeper = Idle
    /\ incs = [k \in Keys |-> 0]
    /\ swept = NoSweep
    /\ boot = Starting
    /\ page = NoPage

\* ------------------------------------------------------------ SharePage
\* GET /api/files/info/<uuid> as the page sees it: the status of GetFileInfo
\* on the stored row at the time of the call, and has_password of a 200.
InfoAnswer(k) ==
    IF ~Exists(k)
    THEN [status |-> 404, has_password |-> FALSE]
    ELSE LET file == [Scan(files[k], GetFileInfoColumns)
                        EXCEPT !.has_password = HasPassword(files[k])]
         IN  IF InfoGate(file, now) # Pass
             THEN [status |-> InfoGate(file, now).status, has_password |-> FALSE]
             ELSE [status |-> 200, has_password |-> file.has_password]

\* SharePage.tsx lines 41-69: an error answer sets the error text; a
\* protected file shows the password form; for a public file
\* setTimeout(downloadFile, 1000) is armed, on every call.
AfterInfo(info, attempts) ==
    IF info.status # 200 THEN "error"
    ELSE IF info.has_password THEN "form"
    ELSE "timer"

\* Lines 108-111: the page is opened for a uuid; useEffect calls
\* checkFileInfo.
Page_Mount ==
    /\ page.pc = "closed"
    /\ \E k \in Keys : page' = [pc |-> "info", key |-> k, attempts |-> 0]
    /\ UNCHANGED <<boot, now, store, pc, req, loc, resp, sweeper, history>>

\* Lines 34-73: checkFileInfo.
Page_CheckFileInfo ==
    /\ page.pc = "info"
    /\ page' = [page EXCEPT !.pc = AfterInfo(InfoAnswer(page.key), page.attempts)]
    /\ UNCHANGED <<boot, now, store, pc, req, loc, resp, sweeper, history>>

\* Lines 75-106: the timer fires and downloadFile opens
\* http://localhost:8080/share/<uuid> in a new tab, then arms
\* setTimeout(checkFileInfo, 1000).  The request of the new tab is a serve
\* of its own.
Page_DownloadFile ==
    /\ page.pc = "timer"
    /\ page.attempts < MaxAttempts
    /\ page' = [page EXCEPT !.pc = "info", !.attempts = @ + 1]
    /\ UNCHANGED <<boot, now, store, pc, req, loc, resp, sweeper, history>>

\* ---------------------------------------------------------------- Next
\* The server in the environment E: the request slots in use (procs), whether
\* calls of the database and the disk made by requests may fail (faults:
\* {FALSE} for never, BOOLEAN for at any call) and those made by the sweeper
\* (sfaults), the accounts that send requests (users), the passwords
\* uploaders choose (pws) and those downloaders supply (tries), the number of
\* files uploaded (nfiles) and of downloads counted (ndl), the hours the
\* clock runs (hours), whether its requests read created_at (stamps).
Step(E) ==
    \/ Tick(E)
    \/ \E p \in E.procs : UploadFiles_Begin(p, E)
    \/ \E p \in E.procs : UploadFiles_Save(p, E)
    \/ \E p \in E.procs : GetFile_Lookup(p, E)
    \/ \E p \in E.procs : GetFile_Gate(p)
    \/ \E p \in E.procs : GetFile_Count(p, E)
    \/ \E p \in E.procs : GetFile_Log(p, E)
    \/ \E p \in E.procs : GetFile_Serve(p)
    \/ \E p \in E.procs : GetFileInfo_Lookup(p, E)
    \/ \E p \in E.procs : GetFileInfo_Check(p)
    \/ \E p \in E.procs : GetFileInfo_Respond(p)
    \/ \E p \in E.procs : DeleteFile_Lookup(p, E)
    \/ \E p \in E.procs : DeleteFile_Remove(p)
    \/ \E p \in E.procs : DeleteFile_Delete(p, E)
    \/ \E p \in E.procs : DeleteFileAdmin_Lookup(p, E)
    \/ \E p \in E.procs : DeleteFileAdmin_Delete(p, E)
    \/ \E p \in E.procs : Return(p)
    \/ Cleanup_Query(E)
    \/ Cleanup_Remove
    \/ Cleanup_Delete(E)

\* The server with the owner listing.
StepListing(E) ==
    \/ Step(E)
    \/ \E p \in E.procs : GetUserFiles_Query(p, E)
    \/ \E p \in E.procs : GetUserFiles_Scan(p, E)
    \/ \E p \in E.procs : GetUserFiles_Respond(p)

\* A run one retention window shorter than the clock allows.
ShortRun == MaxNow - Retention
\* A workload of one file less than the model can hold.
FewFiles == MaxFiles - 1
\* A workload of one download less than the model can count.
FewDownloads == MaxDownloads - 1

\* Concurrent requests of every account on a database and a disk that fail.
Next == StepListing([procs |-> Procs, faults |-> BOOLEAN, sfaults |-> BOOLEAN,
              users |-> Users, pws |-> UploadPasswords, tries |-> Passwords,
              nfiles |-> MaxFiles, ndl |-> MaxDownloads,
              hours |-> MaxNow,
              stamps |-> TRUE])
Spec == Init /\ [][Next]_vars

\* The access gate: one request at a time beside the sweeper and the clock,
\* requests with faults; every file belongs to the administrator.
NextGate == Step([procs |-> {"r1"}, faults |-> BOOLEAN, sfaults |-> {FALSE},
                  users |-> {"admin"}, pws |-> UploadPasswords,
                  tries |-> Passwords, nfiles |-> FewFiles,
                  ndl |-> FewDownloads,
                  hours |-> ShortRun,
              stamps |-> FALSE])
SpecGate == Init /\ [][NextGate]_vars

\* Ownership: one request at a time, of both accounts, on public files.
NextOwner == Step([procs |-> {"r1"}, faults |-> BOOLEAN, sfaults |-> BOOLEAN,
                   users |-> Users, pws |-> {""}, tries |-> {""},
                   nfiles |-> FewFiles, ndl |-> FewDownloads,
                  hours |-> ShortRun,
              stamps |-> FALSE])
SpecOwner == Init /\ [][NextOwner]_vars

\* Races: two requests at a time on a database and a disk that do not fail.
NextRace == Step([procs |-> Procs, faults |-> {FALSE}, sfaults |-> {FALSE},
                  users |-> {"admin"}, pws |-> {""}, tries |-> {""},
                  nfiles |-> FewFiles, ndl |-> MaxDownloads,
                  hours |-> ShortRun,
              stamps |-> FALSE])
SpecRace == Init /\ [][NextRace]_vars

\* The sweeper: several files, one request at a time that does not fail,
\* beside a sweeper whose database calls may fail.
EnvSweep == [procs |-> {"r1"}, faults |-> {FALSE}, sfaults |-> BOOLEAN,
             users |-> {"admin"}, pws |-> {""}, tries |-> {""},
             nfiles |-> MaxFiles, ndl |-> FewDownloads,
               hours |-> MaxNow,
              stamps |-> FALSE]
NextSweep == Step(EnvSweep)
SpecSweep == Init /\ [][NextSweep]_vars

\* Reclamation: one request at a time, nothing fails, and the cleanup
\* goroutine is scheduled: the ticker keeps firing and a started run goes on
\* to its end, whatever the requests do; every request that has answered
\* returns.
EnvReclaim == [procs |-> {"r1"}, faults |-> {FALSE}, sfaults |-> {FALSE},
               users |-> {"admin"}, pws |-> {""}, tries |-> {""},
               nfiles |-> MaxFiles, ndl |-> FewDownloads,
               hours |-> MaxNow,
              stamps |-> FALSE]
NextReclaim == Step(EnvReclaim)
SpecReclaim ==
    /\ Init /\ [][NextReclaim]_vars
    /\ SF_vars(Cleanup_Query(EnvReclaim))
    /\ SF_vars(Cleanup_Remove)
    /\ SF_vars(Cleanup_Delete(EnvReclaim))
    /\ \A p \in Procs : WF_vars(Return(p))

\* The listing: uploads, listings and owner deletes, one request at a time,
\* of both accounts, on several public files whose created_at is kept, with
\* faults in the requests, beside the sweeper and the clock.
EnvList == [procs |-> {"r1"}, faults |-> BOOLEAN, sfaults |-> {FALSE},
            users |-> Users, pws |-> {""}, tries |-> {""},
            nfiles |-> MaxFiles, ndl |-> FewDownloads, hours |-> ShortRun,
            stamps |-> TRUE]
NextList ==
    \/ Tick(EnvList)
    \/ \E p \in EnvList.procs : UploadFiles_Begin(p, EnvList)
    \/ \E p \in EnvList.procs : UploadFiles_Save(p, EnvList)
    \/ \E p \in EnvList.procs : GetUserFiles_Query(p, EnvList)
    \/ \E p \in EnvList.procs : GetUserFiles_Scan(p, EnvList)
    \/ \E p \in EnvList.procs : GetUserFiles_Respond(p)
    \/ \E p \in EnvList.procs : DeleteFile_Lookup(p, EnvList)
    \/ \E p \in EnvList.procs : DeleteFile_Remove(p)
    \/ \E p \in EnvList.procs : DeleteFile_Delete(p, EnvList)
    \/ \E p \in EnvList.procs : Return(p)
    \/ Cleanup_Query(EnvList)
    \/ Cleanup_Remove
    \/ Cleanup_Delete(EnvList)
SpecList == Init /\ [][NextList]_vars

\* Timestamps: every route, one request at a time, on several public files
\* whose created_at is kept; nothing fails.
EnvStamp == [procs |-> {"r1"}, faults |-> {FALSE}, sfaults |-> {FALSE},
             users |-> {"admin"}, pws |-> {""}, tries |-> {""},
             nfiles |-> MaxFiles, ndl |-> FewDownloads, hours |-> ShortRun,
             stamps |-> TRUE]
NextStamp == StepListing(EnvStamp)
SpecStamp == Init /\ [][NextStamp]_vars

\* Batches: every route but the listing, one request at a time, on several
\* public files, with faults in the requests.
EnvBatch == [procs |-> {"r1"}, faults |-> BOOLEAN, sfaults |-> {FALSE},
             users |-> {"admin"}, pws |-> {""}, tries |-> {""},
             nfiles |-> MaxFiles, ndl |-> FewDownloads, hours |-> ShortRun,
             stamps |-> FALSE]
NextBatch == Step(EnvBatch)
SpecBatch == Init /\ [][NextBatch]_vars

\* Startup: main registers its routes beside the cleanup goroutine and the
\* clock; no request is served before r.Run.
EnvStartup == [procs |-> {}, faults |-> {FALSE}, sfaults |-> {FALSE},
               users |-> {}, pws |-> {}, tries |-> {},
               nfiles |-> MaxFiles, ndl |-> FewDownloads, hours |-> ShortRun,
               stamps |-> FALSE]
NextStartup ==
    \/ Main_Step
    \/ Tick(EnvStartup)
    \/ Cleanup_Query(EnvStartup)
    \/ Cleanup_Remove
    \/ Cleanup_Delete(EnvStartup)
SpecStartup == InitStartup /\ [][NextStartup]_vars

\* Uploads and the share page: batches of public and of protected files,
\* one tab showing the share page, the clock and the cleanup goroutine;
\* nothing fails.
EnvPage == [procs |-> {"r1"}, faults |-> {FALSE}, sfaults |-> {FALSE},
            users |-> {"admin"}, pws |-> UploadPasswords, tries |-> {""},
            nfiles |-> MaxFiles, ndl |-> FewDownloads, hours |-> ShortRun,
            stamps |-> FALSE]
NextPage ==
    \/ Tick(EnvPage)
    \/ \E p \in EnvPage.procs : UploadFiles_Begin(p, EnvPage)
    \/ \E p \in EnvPage.procs : UploadFiles_Save(p, EnvPage)
    \/ \E p \in EnvPage.procs : Return(p)
    \/ Cleanup_Query(EnvPage)
    \/ Cleanup_Remove
    \/ Cleanup_Delete(EnvPage)
    \/ Page_Mount
    \/ Page_CheckFileInfo
    \/ Page_DownloadFile
SpecPage == Init /\ [][NextPage]_vars

\* ------------------------------------------------------------- claims
Done(p, kind) == pc[p] = "done" /\ req[p].kind = kind
Gone == Resp(410, "File has expired")
PasswordRequired == Resp(401, "Password required")
Unauthorized == Resp(401, "Invalid password")
FileBytes == Resp(200, "file bytes")
Redirect == Resp(302, "redirect to frontend")
NotOnDisk == Resp(404, "404 page not found")
\* The request of slot p was decided on a row the lookup had read.
Gated(p) == Done(p, "GetFile") /\ loc[p].file # NoFile
Protected(file) == file.password_hash # NoHash
\* The request of slot p was answered without the database failing it.
Answered(p) == resp[p] # Resp(500, "Database error")

\* C1 as stated: a serve request for a stored object that is expired and
\* protected is answered Gone, whatever password it supplies (none, a wrong
\* one, the correct one).
C1_GoneForEveryPassword ==
    \A p \in Procs :
        LET k == req[p].key
        IN  ( /\ Done(p, "GetFile") /\ Answered(p)
              /\ Exists(k) /\ Protected(files[k]) /\ now > files[k].expires_at
              /\ (loc[p].file = NoFile \/ loc[p].gateLate) )
            => resp[p] = Gone

\* C1 as amended: a serve request that reaches the gate (its lookup read the
\* row; a browser request without password was redirected before) when the
\* protected object is expired is answered Gone, whatever password it
\* supplies: the expiry check comes before any password comparison.
C1_ExpiryBeforePassword ==
    \A p \in Procs :
        (Gated(p) /\ Protected(loc[p].file) /\ loc[p].gateLate)
            => resp[p] = Gone

\* C1 witness: the correct password on an expired, protected, not yet swept
\* object was answered Gone.
C1_Witness ==
    \E p \in Procs :
        /\ Gated(p) /\ loc[p].gateLate /\ resp[p] = Gone
        /\ req[p].password # ""
        /\ CompareHashAndPassword(loc[p].file.password_hash, req[p].password)
        /\ Exists(req[p].key)

\* C2 as stated: no byte stream is delivered at a moment when now > expiresAt.
C2_NeverServedAfterExpiry ==
    \A p \in Procs :
        (Done(p, "GetFile") /\ resp[p] = FileBytes) => ~loc[p].servedLate

\* C2 as amended: expiry is enforced when the gate reads the clock: a request
\* whose expiry check finds now > expiresAt is answered Gone and delivers
\* nothing, swept or not, and every delivered byte stream passed that check
\* while now <= expiresAt.
C2_ExpiryEnforcedAtGate ==
    \A p \in Procs :
        /\ (Done(p, "GetFile") /\ resp[p] = FileBytes) => ~loc[p].gateLate
        /\ (Gated(p) /\ loc[p].gateLate) => resp[p] = Gone

\* C2 witness: an expired object whose row and bytes the sweeper has not yet
\* removed was refused.
C2_Witness ==
    \E p \in Procs :
        /\ Gated(p) /\ loc[p].gateLate /\ resp[p] = Gone
        /\ Exists(req[p].key) /\ disk[FilePath(req[p].key)] = "complete"

\* The row slot p looked up is stored, protected and not expired.
LiveProtected(p) ==
    LET k == req[p].key
    IN  Exists(k) /\ Protected(files[k]) /\ now <= files[k].expires_at
\* The password the uploader of a protected file chose.
Chosen(file) == file.password_hash[2]
\* The password slot p supplied is the one the uploader chose.
Correct(p, file) ==
    /\ req[p].password # ""
    /\ req[p].password = Chosen(file)

\* C3 as stated: on an unexpired protected object a serve with no password
\* is answered PasswordRequired, with an incorrect one Unauthorized, and
\* with the correct one it delivers the bytes and counts one download.
C3_PasswordGateOutcome ==
    \A p \in Procs :
        (Done(p, "GetFile") /\ Answered(p) /\ LiveProtected(p)) =>
            LET file == files[req[p].key]
            IN  /\ req[p].password = "" => resp[p] = PasswordRequired
                /\ (req[p].password # "" /\ ~Correct(p, file))
                       => resp[p] = Unauthorized
                /\ Correct(p, file) => (resp[p] = FileBytes /\ loc[p].counted)

\* The answers of the gate on a protected row found unexpired.
C3_GateAnswers ==
    \A p \in Procs :
        (Gated(p) /\ Protected(loc[p].file) /\ ~loc[p].gateLate) =>
            /\ req[p].password = "" => resp[p] = PasswordRequired
            /\ (req[p].password # "" /\ ~Correct(p, loc[p].file))
                   => resp[p] = Unauthorized
            /\ Correct(p, loc[p].file)
                   => resp[p] \in {FileBytes, NotOnDisk}
            /\ PasswordRequired # Unauthorized
\* Bytes and counts of a protected row go to verified requests only.
C3_VerifiedOnly ==
    \A p \in Procs :
        ( /\ req[p].kind = "GetFile" /\ loc[p].file # NoFile
          /\ Protected(loc[p].file)
          /\ (pc[p] \in {"count", "log", "serve"} \/ resp[p] = FileBytes
              \/ loc[p].counted) )
        => Correct(p, loc[p].file)
\* download_count of a stored row changes only by the update of one request
\* past the gate, and then by exactly 1.
C3_CountStep ==
    \A k \in Keys :
        (Exists(k) /\ files'[k] # NoRow
         /\ files'[k].download_count # files[k].download_count) =>
            /\ files'[k].download_count = files[k].download_count + 1
            /\ \E p \in Procs : /\ pc[p] = "count" /\ pc'[p] = "log"
                                /\ loc[p].file.id = k
                                /\ loc'[p].counted

\* C3 as amended: on an unexpired protected object a serve that reaches the
\* gate (not redirected to the frontend before the lookup) with no password
\* is answered PasswordRequired, with an incorrect one Unauthorized (another
\* body than PasswordRequired), and with the correct one it passes the gate
\* and sends the bytes the disk holds; bytes are delivered and download_count
\* is changed only by requests that passed the comparison, and the update of
\* such a request adds exactly 1 to the stored row.
C3_PasswordGate ==
    /\ [](C3_GateAnswers /\ C3_VerifiedOnly)
    /\ [][C3_CountStep]_vars

\* C3 witness: the correct password on an unexpired protected object was
\* served and counted once.
C3_Witness ==
    \E p \in Procs :
        /\ Gated(p) /\ Protected(loc[p].file) /\ ~loc[p].gateLate
        /\ Correct(p, loc[p].file)
        /\ resp[p] = FileBytes /\ loc[p].counted
        /\ Exists(req[p].key) /\ files[req[p].key].download_count = 1

\* C4: download_count is incremented only by a serve that delivers the byte
\* stream, also when the bytes are missing from the disk: a request that
\* changed the counter delivered the bytes.
C4_CountedOnlyWhenDelivered ==
    \A p \in Procs :
        (Done(p, "GetFile") /\ loc[p].counted) => resp[p] = FileBytes

\* C5: the update of download_count loses no increment: the counter of a
\* stored row equals the number of updates requests have applied to it,
\* however the requests interleave.
C5_NoLostUpdate ==
    \A k \in Keys : Exists(k) => files[k].download_count = incs[k]

\* C5 witness: two requests read the row at count 0, both have applied
\* their update, and the row stands at 2.
C5_Witness ==
    \E k \in Keys :
        /\ Exists(k) /\ files[k].download_count = 2
        /\ \A p \in Procs : /\ pc[p] = "log" /\ loc[p].file.id = k
                            /\ loc[p].file.download_count = 0

\* C6: when the bytes of a file were written and its registry insert failed,
\* no row of the file exists and its bytes are removed from the disk.
C6_InsertFailureRollsBack ==
    \A p \in Procs :
        (Done(p, "UploadFiles") /\ resp[p].body = "Failed to save file info")
            => /\ ~Exists(loc[p].cur)
               /\ disk[FilePath(loc[p].cur)] = "absent"

\* C6 witness: an upload whose insert failed has answered, and neither row
\* nor bytes of the file are left.
C6_Witness ==
    \E p \in Procs :
        /\ Done(p, "UploadFiles") /\ resp[p] = Resp(500, "Failed to save file info")
        /\ loc[p].cur \in Keys /\ nextKey = loc[p].cur + 1
        /\ ~Exists(loc[p].cur) /\ disk[FilePath(loc[p].cur)] = "absent"

\* C7: when the destination file was created and copying the bytes failed,
\* afterwards the disk holds no partial bytes of the file and no row of it
\* exists.
C7_CopyFailureRollsBack ==
    \A p \in Procs :
        (Done(p, "UploadFiles") /\ resp[p].body = "Failed to save file")
            => /\ ~Exists(loc[p].cur)
               /\ disk[FilePath(loc[p].cur)] = "absent"

\* A delete of row k (owner route or sweeper) stands between its os.Remove
\* and its DELETE.
Deleting(k) ==
    \/ \E p \in Procs : pc[p] = "delete" /\ loc[p].file.id = k
    \/ sweeper.pc = "delete" /\ sweeper.cur = k

\* C8: every stored row has its bytes on the disk, in every state outside the
\* two statements of a delete of that row, also after a fault of the
\* registry delete in the owner route or in the sweep.
C8_RecordsHaveBytes ==
    \A k \in Keys :
        (Exists(k) /\ ~Deleting(k)) => disk[FilePath(k)] = "complete"

\* C9: a delete that answers success, on the owner route or the admin route,
\* leaves neither the row nor the bytes of the object.
C9_SuccessfulDeleteRemovesBoth ==
    \A p \in Procs :
        ( /\ pc[p] = "done" /\ req[p].kind \in {"DeleteFile", "DeleteFileAdmin"}
          /\ resp[p] = Resp(200, "File deleted successfully") )
        => /\ ~Exists(req[p].key)
           /\ disk[FilePath(req[p].key)] = "absent"

Forbidden(r) == r.status = 403
Deleted == Resp(200, "File deleted successfully")

NotFound == Resp(404, "File not found")
AccessDenied == Resp(403, "Access denied")

\* The answers of the owner route to a delete it refuses.
C11_Refusals ==
    \A p \in Procs :
        (Done(p, "DeleteFile") /\ Answered(p)) =>
            /\ loc[p].file = NoFile => (resp[p] = NotFound /\ ~Exists(req[p].key))
            /\ (loc[p].file # NoFile /\ loc[p].file.user_id # req[p].user)
                   => (resp[p] = AccessDenied /\ Exists(req[p].key))
            /\ resp[p] = NotFound => loc[p].file = NoFile
            /\ resp[p] = AccessDenied => loc[p].file.user_id # req[p].user
            /\ NotFound.status # AccessDenied.status
\* A step that ends a delete on the owner route with a refusal changes
\* neither table nor the upload directory.
C11_RefusalFrame ==
    \A p \in Procs :
        (pc[p] # "done" /\ pc'[p] = "done" /\ req'[p].kind = "DeleteFile"
         /\ resp'[p] \in {NotFound, AccessDenied})
        => UNCHANGED <<files, downloads, disk>>

\* C11: on the owner route a delete of an absent id is answered 404 and a
\* delete of an existing object of another owner 403, two different answers,
\* and in both cases files, downloads and the upload directory are left as
\* they were.
C11_OwnerPathRefusals == []C11_Refusals /\ [][C11_RefusalFrame]_vars

\* C11 witness: a delete of an absent id was answered 404 while another
\* object is stored with its bytes.
C11_Witness ==
    \E p \in Procs :
        /\ Done(p, "DeleteFile") /\ resp[p] = NotFound /\ ~Exists(req[p].key)
        /\ \E k \in Keys : Exists(k) /\ disk[FilePath(k)] = "complete"

\* C12: deletion is idempotent and safe to race with itself: every delete of
\* an id by an authorized caller, whatever other delete or sweep of the same
\* id runs before it or interleaved with it, is answered success or NotFound,
\* never an error, and when it has answered neither the row nor the bytes of
\* the id are left.
C12_DeleteIdempotent ==
    \A p \in Procs :
        (pc[p] = "done" /\ req[p].kind \in {"DeleteFile", "DeleteFileAdmin"}) =>
            /\ resp[p] \in {Deleted, NotFound}
            /\ ~Exists(req[p].key)
            /\ disk[FilePath(req[p].key)] = "absent"

\* Object k is stored and its expires_at is in the past.
ExpiredObject(k) == Exists(k) /\ files[k].expires_at < now
\* Neither the row nor the bytes of object k are left.
Reclaimed(k) == ~Exists(k) /\ disk[FilePath(k)] = "absent"

\* C13: every expired object is reclaimed: with the cleanup goroutine running
\* and nothing failing, an object that is stored with its expires_at in the
\* past is eventually absent from files and from the upload directory.
C13_ExpiredEventuallyReclaimed ==
    \A k \in Keys : ExpiredObject(k) ~> Reclaimed(k)

\* The sweeper takes a step.
SweeperStep == sweeper' # sweeper

\* The file of the row the sweeper is about to delete is gone from the disk.
C14_StoreFirst ==
    sweeper.pc = "delete" =>
        /\ sweeper.cur \in sweeper.list
        /\ disk[FilePath(sweeper.cur)] = "absent"
\* After the os.Remove of a file, failed or not, its DELETE is next; the
\* DELETE removes the row; the sweeper removes no row at any other step.
C14_RemoveThenDelete ==
    /\ (sweeper.pc = "remove" /\ SweeperStep) =>
           (sweeper'.pc = "delete" /\ sweeper'.cur \in sweeper.list)
    /\ (sweeper.pc = "delete" /\ SweeperStep) => files'[sweeper.cur] = NoRow
    /\ \A k \in Keys :
           (Exists(k) /\ files'[k] = NoRow /\ SweeperStep) =>
               (sweeper.pc = "delete" /\ sweeper.cur = k)

\* C14: for each expired id of a sweep the sweeper removes the file from the
\* upload directory first and the row from files second, and when the
\* removal of the file fails it still deletes the row.
C14_StoreThenRegistry == []C14_StoreFirst /\ [][C14_RemoveThenDelete]_vars

\* C14 witness: the os.Remove of an expired file has failed (the file was
\* gone) and the sweeper stands before the DELETE of its row.
C14_Witness ==
    /\ sweeper.pc = "delete" /\ sweeper.err
    /\ ExpiredObject(sweeper.cur)

\* The sweeper is in its loop exactly while files are left to process.
C15_LoopShape ==
    /\ sweeper.pc = "idle" => sweeper.list = {}
    /\ sweeper.pc = "remove" => sweeper.list # {}
    /\ sweeper.list \subseteq Keys
\* No step of the loop drops a listed file: the os.Remove step keeps the list,
\* the DELETE step, failed or not, takes out the current file only and goes
\* on while files are left.
C15_LoopStep ==
    /\ (sweeper.pc = "remove" /\ SweeperStep) =>
           (sweeper'.list = sweeper.list /\ sweeper'.cur \in sweeper.list)
    /\ (sweeper.pc = "delete" /\ SweeperStep) =>
           LET rest == sweeper.list \ {sweeper.cur}
           IN  /\ sweeper'.list = rest
               /\ rest # {} => sweeper'.pc = "remove"

\* C15: within one sweep a failure on one expired object (row scan, os.Remove
\* or DELETE) does not end the batch: every other object listed in the sweep
\* is still processed.
C15_BatchIndependent == []C15_LoopShape /\ [][C15_LoopStep]_vars

\* C15 witness: the DELETE of one expired object has failed (its row is
\* stored, its bytes are gone, no request is at work) and the sweep is
\* processing another object.
C15_Witness ==
    /\ sweeper.pc = "delete"
    /\ \A p \in Procs : pc[p] = "idle"
    /\ \E k \in Keys \ sweeper.list :
           ExpiredObject(k) /\ disk[FilePath(k)] = "absent"

\* C16: at most one execution of CleanupExpiredFiles is in progress at any
\* time, and one is in progress exactly while the loop of the routine is
\* inside the call.
C16_NoOverlap ==
    /\ sweeper.active \in {0, 1}
    /\ sweeper.active = 1 <=> sweeper.pc # "idle"

\* C16 witness: a sweep is still in progress after the clock has moved on by
\* more than the tick interval, while a request is being handled.
C16_Witness ==
    /\ sweeper.active = 1
    /\ swept.clean /\ swept.at < now
    /\ \E p \in Procs : pc[p] \notin {"idle", "done"}

\* C17: after a sweep that completed without fault, with the clock where it
\* was at the query and no expired row inserted since, no stored row is
\* expired and a second sweep changes nothing.
C17_SweepIdempotent ==
    (sweeper.pc = "idle" /\ swept.clean /\ swept.at = now) =>
        /\ {k \in Keys : files[k] # NoRow /\ files[k].expires_at < now} = {}
        /\ ~ENABLED <<Cleanup_Query(EnvSweep)>>_vars

\* C17 witness: a sweep has completed without fault, the clock has not moved,
\* and an object it was about is gone from both stores.
C17_Witness ==
    /\ sweeper.pc = "idle" /\ swept.clean /\ swept.at = now
    /\ \E k \in Keys : k < nextKey /\ Reclaimed(k)

\* The metadata answer of GetFileInfo.
Metadata == Resp(200, "file")
\* The preview of slot p has answered on a row its lookup had read.
Previewed(p) == Done(p, "GetFileInfo") /\ loc[p].file # NoFile

\* C18 as stated: on an unexpired protected object a preview, which carries
\* no password, is answered PasswordRequired and not with the metadata.
C18_PreviewPasswordRequired ==
    \A p \in Procs :
        (Previewed(p) /\ LiveProtected(p) /\ ~loc[p].gateLate)
            => resp[p] = PasswordRequired

\* C18 as amended: a preview carries no password and is never asked for one:
\* it is never answered PasswordRequired or Unauthorized; on a row found
\* unexpired, protected or not, it is answered with the metadata, and on a
\* row found expired it is answered Gone.
C18_PreviewHasNoPasswordGate ==
    \A p \in Procs :
        req[p].kind = "GetFileInfo" =>
            /\ req[p].password = ""
            /\ resp[p] \notin {PasswordRequired, Unauthorized}
            /\ (Previewed(p) /\ ~loc[p].gateLate) => resp[p] = Metadata
            /\ (Previewed(p) /\ loc[p].gateLate) => resp[p] = Gone

\* C18 witness: the preview of an unexpired protected object was answered
\* with the metadata, which report the password.
C18_Witness ==
    \E p \in Procs :
        /\ Previewed(p) /\ LiveProtected(p) /\ ~loc[p].gateLate
        /\ resp[p] = Metadata /\ loc[p].file.has_password

\* C19: a preview mutates nothing: no step of a GetFileInfo request changes
\* a row (download_count included), the download log, the disk, or the
\* number of updates applied to a counter.
C19_PreviewStep ==
    \A p \in Procs :
        ( /\ req[p].kind = "GetFileInfo" \/ req'[p].kind = "GetFileInfo"
          /\ pc'[p] # pc[p] )
        => UNCHANGED <<files, downloads, disk, nextKey, incs>>
C19_PreviewReadOnly == [][C19_PreviewStep]_vars

\* C19 witness: the preview of an object downloaded once has answered with
\* the metadata, and the counter still stands at 1 with one log entry.
C19_Witness ==
    \E p \in Procs :
        /\ Previewed(p) /\ resp[p] = Metadata
        /\ loc[p].file.download_count = 1
        /\ Exists(req[p].key)
        /\ files[req[p].key].download_count = 1 /\ incs[req[p].key] = 1
        /\ Used = 1

\* C20 as stated: a preview is answered NotFound when no row has the id,
\* Gone when the row is expired at the expiry check, and otherwise with the
\* metadata, in which has_password tells whether a hash is stored and
\* is_expired is false.
C20_PreviewOutcome ==
    \A p \in Procs :
        (Done(p, "GetFileInfo") /\ Answered(p)) =>
            /\ loc[p].file = NoFile => resp[p] = NotFound
            /\ (loc[p].file # NoFile /\ loc[p].gateLate) => resp[p] = Gone
            /\ (loc[p].file # NoFile /\ ~loc[p].gateLate) =>
                   /\ resp[p] = Metadata
                   /\ Exists(req[p].key) =>
                          (loc[p].file.has_password
                               <=> Protected(files[req[p].key]))
                   /\ ~loc[p].file.is_expired

\* C20 as amended: a preview is answered NotFound when no row has the id,
\* Gone when the row is expired at the expiry check, and otherwise with the
\* metadata, in which has_password tells whether a hash is stored and
\* is_expired comes from a second reading of the clock: it is false unless
\* the object expired between the expiry check and the answer.
C20_PreviewOutcomeAtCheck ==
    \A p \in Procs :
        (Done(p, "GetFileInfo") /\ Answered(p)) =>
            /\ loc[p].file = NoFile => resp[p] = NotFound
            /\ resp[p] = NotFound => ~Exists(req[p].key)
            /\ (loc[p].file # NoFile /\ loc[p].gateLate) => resp[p] = Gone
            /\ (loc[p].file # NoFile /\ ~loc[p].gateLate) =>
                   /\ resp[p] = Metadata
                   /\ Exists(req[p].key) =>
                          (loc[p].file.has_password
                               <=> Protected(files[req[p].key]))
                   /\ loc[p].file.is_expired
                          <=> now > loc[p].file.expires_at

\* C20 witness: a protected object passed the expiry check of a preview,
\* expired before the answer, and the metadata say is_expired.
C20_Witness ==
    \E p \in Procs :
        /\ Previewed(p) /\ ~loc[p].gateLate /\ resp[p] = Metadata
        /\ loc[p].file.has_password /\ loc[p].file.is_expired
        /\ Exists(req[p].key)

\* The serve of slot p is past the gate: the gate let it through or, once it
\* has answered, the answer is none of the gate's refusals.
PastGate(p) ==
    /\ req[p].kind = "GetFile" /\ loc[p].file # NoFile
    /\ \/ pc[p] \in {"count", "log", "serve"}
       \/ pc[p] = "done" /\ resp[p] \notin {Gone, PasswordRequired, Unauthorized}

\* A serve past the gate goes from the UPDATE to the INSERT and from the
\* INSERT to the byte stream whatever the two statements return, and sends
\* the bytes when the upload directory holds them.
C22_ServeStep ==
    \A p \in Procs :
        /\ (pc[p] = "count" /\ pc'[p] # "count") => pc'[p] = "log"
        /\ (pc[p] = "log" /\ pc'[p] # "log") => pc'[p] = "serve"
        /\ (pc[p] = "serve" /\ pc'[p] # "serve") =>
               /\ pc'[p] = "done"
               /\ disk[loc[p].file.file_path] # "absent" => resp'[p] = FileBytes
\* C22: counting is best-effort: when the UPDATE of download_count or the
\* INSERT INTO downloads fails during a serve that passed the gate, the
\* handler still goes on and delivers the bytes the upload directory holds;
\* no answer of a serve past the gate is an error of the counting.
C22_CountingBestEffort ==
    /\ [](\A p \in Procs : PastGate(p) => resp[p].status # 500)
    /\ [][C22_ServeStep]_vars

\* C22 witness: a serve of a stored object delivered the bytes although its
\* UPDATE changed no row and its INSERT logged nothing.
C22_Witness ==
    \E p \in Procs :
        /\ Done(p, "GetFile") /\ resp[p] = FileBytes /\ ~loc[p].counted
        /\ Exists(req[p].key)
        /\ files[req[p].key].download_count = 0 /\ downloads[req[p].key] = 0

\* C23: a serve that passed the gate and finds the bytes missing from the
\* upload directory fails with Conflict or an internal error, a status other
\* than that of NotFound.
C23_MissingBytesConflict ==
    \A p \in Procs :
        (Done(p, "GetFile") /\ PastGate(p)
         /\ disk[loc[p].file.file_path] = "absent")
        => (resp[p].status \in {409, 500} /\ resp[p].status # NotFound.status)

\* Every row of downloads references a stored row of files.
C28_Referenced == \A k \in Keys : ~Exists(k) => downloads[k] = 0
\* The rows of downloads of a file change only by one INSERT of a serve past
\* the gate or, all together, with the DELETE of the file.
C28_EventStep ==
    \A k \in Keys :
        downloads'[k] # downloads[k] =>
            \/ /\ downloads'[k] = downloads[k] + 1
               /\ Exists(k) /\ files'[k] = files[k]
               /\ \E p \in Procs : /\ pc[p] = "log" /\ pc'[p] = "serve"
                                   /\ loc[p].file.id = k
            \/ /\ downloads'[k] = 0
               /\ Exists(k) /\ files'[k] = NoRow
\* C28: access events are write-once and cascade with their file: in every
\* state every row of downloads references a stored file, also when the
\* INSERT of a serve interleaves with a delete or a sweep of the file, and
\* rows of downloads are only appended one at a time or removed with their
\* file.
C28_EventsFollowTheirFile == []C28_Referenced /\ [][C28_EventStep]_vars

\* C28 witness: a serve counted its download, the file was deleted before
\* the INSERT INTO downloads, and the INSERT has left no row behind.
C28_Witness ==
    \E p \in Procs :
        /\ pc[p] = "serve" /\ loc[p].counted
        /\ ~Exists(loc[p].file.id) /\ downloads[loc[p].file.id] = 0

\* The listing of slot p has answered with its list.
Listed(p) == Done(p, "GetUserFiles") /\ resp[p] = Resp(200, "files")
\* The ids of the files of a sequence.
Ids(sq) == {sq[i].id : i \in DOMAIN sq}
\* The files of a sequence come newest first.
Descending(sq) ==
    \A i, j \in DOMAIN sq : i < j => sq[i].created_at >= sq[j].created_at

\* C27 as stated: the listing returns exactly the rows of the caller, each
\* once, newest first by created_at, each with is_expired telling whether
\* the clock has passed its expires_at.
C27_ListingExact ==
    \A p \in Procs :
        Listed(p) =>
            /\ Ids(loc[p].list) = Ids(loc[p].rows)
            /\ Len(loc[p].list) = Len(loc[p].rows)
            /\ \A i \in DOMAIN loc[p].rows :
                   Exists(loc[p].rows[i].id)
                       => files[loc[p].rows[i].id].user_id = req[p].user
            /\ Descending(loc[p].list)
            /\ \A i \in DOMAIN loc[p].list :
                   loc[p].list[i].is_expired
                       => now > loc[p].list[i].expires_at

\* The list of a listing holds rows of its result set, each at most once and
\* newest first; the rows still stored belong to the caller; a file listed
\* as expired is expired.
C27_Listing ==
    \A p \in Procs :
        req[p].kind = "GetUserFiles" =>
            /\ Ids(loc[p].list) \subseteq Ids(loc[p].rows)
            /\ Len(loc[p].list) = Cardinality(Ids(loc[p].list))
            /\ Len(loc[p].list) <= Len(loc[p].rows)
            /\ \A i \in DOMAIN loc[p].rows :
                   Exists(loc[p].rows[i].id)
                       => files[loc[p].rows[i].id].user_id = req[p].user
            /\ Descending(loc[p].rows) /\ Descending(loc[p].list)
            /\ \A i \in DOMAIN loc[p].list :
                   loc[p].list[i].is_expired
                       => now > loc[p].list[i].expires_at
\* The query of a listing returns the stored rows whose user_id is the
\* caller, each once; a row appended to the list is the row the scan is at,
\* with is_expired read from the clock.
C27_ListingStep ==
    \A p \in Procs :
        /\ (pc[p] = "idle" /\ pc'[p] = "scan") =>
               /\ Ids(loc'[p].rows) =
                      {k \in Keys : files[k] # NoRow
                                    /\ files[k].user_id = req'[p].user}
               /\ Len(loc'[p].rows) = Cardinality(Ids(loc'[p].rows))
        /\ (pc[p] = "scan" /\ Len(loc'[p].list) # Len(loc[p].list)) =>
               LET file == loc[p].rows[loc[p].next]
               IN  /\ loc'[p].rows = loc[p].rows
                   /\ loc'[p].list =
                          Append(loc[p].list,
                                 [file EXCEPT !.is_expired =
                                                  now > file.expires_at])
\* C27 as amended: the listing returns only rows whose user_id is the
\* authenticated caller, never another user's, each at most once, newest
\* first by created_at, each with is_expired computed as now > expires_at
\* when the row is scanned; it returns every row of the caller except those
\* whose Scan fails, which are left out of the 200 answer without notice.
C27_ListingOfCaller == []C27_Listing /\ [][C27_ListingStep]_vars

\* C27 witness: a listing has answered with the one file of the caller,
\* marked expired, while a file of another user is stored.
C27_Witness ==
    \E p \in Procs :
        /\ Listed(p) /\ Len(loc[p].list) = 1 /\ loc[p].list[1].is_expired
        /\ Exists(loc[p].list[1].id)
        /\ \E k \in Keys : Exists(k) /\ files[k].user_id # req[p].user

\* C21 as stated: expires_at of every stored row is its created_at plus the
\* retention window.
C21_ExpiresAtFromCreatedAt ==
    \A k \in Keys :
        Exists(k) => files[k].expires_at = files[k].created_at + Retention

\* expires_at of a row lies at most one retention window after its
\* created_at, and the expiresAt of an upload at work at most one window
\* after the clock.
C21_WithinRetention ==
    /\ \A k \in Keys :
           Exists(k) =>
               /\ files[k].created_at <= now
               /\ files[k].expires_at <= files[k].created_at + Retention
    /\ \A p \in Procs :
           pc[p] = "save" => loc[p].expiresAt <= now + Retention
\* A row is inserted with the expiresAt its upload computed before the loop
\* and the clock of the insert as created_at; no step changes either column
\* of a stored row.
C21_StampStep ==
    \A k \in Keys :
        /\ (files[k] = NoRow /\ files'[k] # NoRow) =>
               \E p \in Procs :
                   /\ pc[p] = "save"
                   /\ files'[k].expires_at = loc[p].expiresAt
                   /\ files'[k].created_at = now
        /\ (files[k] # NoRow /\ files'[k] # NoRow) =>
               /\ files'[k].expires_at = files[k].expires_at
               /\ files'[k].created_at = files[k].created_at
\* C21 as amended: expires_at is the clock read once when the upload request
\* starts plus the 24-hour retention window, the same for every file of a
\* multi-file upload; created_at is set by the database at each insert,
\* which is never earlier, so expires_at <= created_at + 24 hours with
\* equality only when the insert happens at the instant the request
\* started; no operation (serve, preview, listing, delete, sweep) changes
\* expires_at or created_at after creation.
C21_ExpiryFixedAtUpload == []C21_WithinRetention /\ [][C21_StampStep]_vars

\* C21 witness: two files of one upload are stored with the same expires_at,
\* the second inserted a retention window after the first.
C21_Witness ==
    \E j, k \in Keys :
        /\ Exists(j) /\ Exists(k)
        /\ files[j].expires_at = files[k].expires_at
        /\ files[j].created_at + Retention = files[k].created_at
        /\ files[k].expires_at < files[k].created_at + Retention

\* The upload of slot p has answered with a failure.
UploadFailed(p) == Done(p, "UploadFiles") /\ resp[p].status = 500

\* The step in which an upload fails on a file changes no row, no downloads
\* row and no file of the upload directory but the one it was saving.
C24_FailureStep ==
    \A p \in Procs :
        (pc[p] = "save" /\ pc'[p] = "done" /\ resp'[p].status = 500) =>
            /\ files' = files /\ downloads' = downloads
            /\ loc'[p].responses = loc[p].responses
            /\ \A k \in Keys \ {nextKey} : disk'[FilePath(k)] = disk[FilePath(k)]
\* C24: in a multi-file upload a failure on one file leaves the rows and the
\* bytes of the files saved before it in the same batch as they are.
C24_SiblingsKept == [][C24_FailureStep]_vars

\* C24 witness: the second file of an upload has failed; the first is stored
\* with its bytes.
C24_Witness ==
    \E p \in Procs :
        /\ UploadFailed(p) /\ loc[p].responses # {}
        /\ \A k \in loc[p].responses :
               Exists(k) /\ disk[FilePath(k)] = "complete"

\* The uuids the response of the upload of slot p carries: the 200 answer has
\* the responses, an error answer the error text only.
Reported(p) ==
    IF resp[p] = Resp(200, "Files uploaded successfully")
    THEN loc[p].responses
    ELSE {}

\* C25: the answer of an upload, also of one that failed on a file,
\* identifies every file the request created.
C25_ReportedPerFile ==
    \A p \in Procs :
        Done(p, "UploadFiles") => loc[p].responses \subseteq Reported(p)

\* C26: an insert failure (the collision of the generated uuid with a stored
\* one is such a failure) is surfaced only after the insert was tried a
\* second time.
C26_RetriedOnce ==
    \A p \in Procs :
        (Done(p, "UploadFiles") /\ resp[p] = Resp(500, "Failed to save file info"))
            => loc[p].inserts = 2

\* The object slot p asked for is stored with its bytes, public and not
\* expired.
LivePublic(p) ==
    LET k == req[p].key
    IN  /\ Exists(k) /\ ~Protected(files[k]) /\ now <= files[k].expires_at
        /\ disk[FilePath(k)] = "complete"

\* C30: a serve without password of a public, unexpired object delivers the
\* bytes to every client, also to one that sends browser headers.
C30_PublicServedToEveryClient ==
    \A p \in Procs :
        (Done(p, "GetFile") /\ Answered(p) /\ req[p].password = ""
         /\ LivePublic(p))
        => resp[p] = FileBytes

\* C29: the start of the server registers each route once: no registration
\* makes the router panic, and main goes on to r.Run.
C29_EachRouteRegisteredOnce ==
    /\ Running
    /\ boot.state = "starting" =>
           \A i, j \in 1..(boot.next - 1) :
               i # j => MainRoutes[i] # MainRoutes[j]

\* The answers by which a serve ends without delivering the object.
C31_Refusals == {NotFound, Gone, PasswordRequired, Unauthorized, Redirect}

\* The step that ends a serve with a refusal, and every step of a serve
\* before its gate is passed, changes neither table nor the upload directory.
C31_RefusalStep ==
    \A p \in Procs :
        ( /\ req'[p].kind = "GetFile" /\ pc'[p] # pc[p]
          /\ \/ pc[p] \in {"idle", "gate"} /\ pc'[p] \in {"gate", "done"}
             \/ pc'[p] = "done" /\ resp'[p] \in C31_Refusals )
        => UNCHANGED <<files, downloads, disk, incs>>
\* A refused serve counted nothing, and the gate refuses no correct password
\* on an unexpired protected row, in whatever state earlier attempts left.
C31_NoLockout ==
    \A p \in Procs :
        Done(p, "GetFile") =>
            /\ resp[p] \in C31_Refusals => ~loc[p].counted
            /\ ( /\ loc[p].file # NoFile /\ ~loc[p].gateLate
                 /\ Protected(loc[p].file) => Correct(p, loc[p].file) )
               => resp[p] \notin C31_Refusals

\* C31: a serve that ends in NotFound, Gone, PasswordRequired, Unauthorized
\* or the redirect to the frontend leaves download_count, table downloads,
\* the row and the bytes as they were, so that failed attempts never make
\* the gate refuse a later attempt with the correct password.
C31_RefusedServeChangesNothing ==
    []C31_NoLockout /\ [][C31_RefusalStep]_vars

\* C31 witness: a wrong password on an unexpired protected object was
\* answered Unauthorized; the row, with a count of 0, no download row and
\* its bytes are all there.
C31_Witness ==
    \E p \in Procs :
        /\ Done(p, "GetFile") /\ resp[p] = Unauthorized
        /\ LiveProtected(p)
        /\ files[req[p].key].download_count = 0
        /\ downloads[req[p].key] = 0
        /\ disk[FilePath(req[p].key)] = "complete"

\* C32: once the row of an id is gone, as after a delete that answered
\* success on the owner route or the admin route, no serve of that id
\* delivers bytes, not even one that had read the row before the delete;
\* and a serve or preview whose lookup comes after the delete is answered
\* NotFound.
C32_NoServeAfterDelete ==
    \A p \in Procs :
        /\ (Done(p, "GetFile") /\ resp[p] = FileBytes) => Exists(req[p].key)
        /\ ( /\ Done(p, "GetFile") \/ Done(p, "GetFileInfo")
             /\ Answered(p) /\ ~Exists(req[p].key) /\ loc[p].file = NoFile
             /\ ~Redirected(req[p].browser, req[p].password) )
           => resp[p] = NotFound

\* Every row in the list of a running sweep is one the gate answers Gone for.
C33_ListedExpired ==
    \A k \in sweeper.list :
        Exists(k) => Gate(files[k], "", now) = Gone
\* A step of the sweeper changes the row and the bytes of listed objects
\* only, each past its expires_at.
C33_SweepStep ==
    SweeperStep =>
        \A k \in Keys :
            (files'[k] # files[k] \/ disk'[FilePath(k)] # disk[FilePath(k)])
            => /\ k \in sweeper.list
               /\ Exists(k) => now > files[k].expires_at

\* C33: the sweeper removes expired objects only: it deletes neither the row
\* nor the bytes of an object whose expires_at has not passed, which the gate
\* would still serve, and leaves every such object as it is.
C33_SweepsOnlyExpired == []C33_ListedExpired /\ [][C33_SweepStep]_vars

\* C33 witness: the sweeper has removed the bytes of an expired object and
\* is about to delete its row, while an unexpired object that is not in its
\* list is stored with its bytes.
C33_Witness ==
    /\ sweeper.pc = "delete"
    /\ Exists(sweeper.cur) /\ now > files[sweeper.cur].expires_at
    /\ disk[FilePath(sweeper.cur)] = "absent"
    /\ \E k \in Keys \ sweeper.list :
          /\ Exists(k) /\ now <= files[k].expires_at
          /\ disk[FilePath(k)] = "complete"

\* The serves of object k that have counted and not yet logged.
C34_BetweenStatements(k) ==
    {p \in Procs : pc[p] = "log" /\ loc[p].file.id = k /\ loc[p].counted}

\* C34: when no statement fails, download_count of every stored object is
\* the number of its rows in table downloads plus the serves that are
\* between their UPDATE and their INSERT; so the two are equal whenever no
\* serve is between its two statements, whatever the interleaving was.
C34_CountEqualsEvents ==
    \A k \in Keys :
        Exists(k) =>
            files[k].download_count =
                downloads[k] + Cardinality(C34_BetweenStatements(k))

\* C34 witness: two serves of one object, interleaved, have both counted
\* and logged: the count is 2 and there are 2 download rows.
C34_Witness ==
    \E k \in Keys :
        /\ Exists(k) /\ files[k].download_count = 2 /\ downloads[k] = 2
        /\ \A p \in Procs : pc[p] = "serve" /\ loc[p].file.id = k

\* A serve is answered with the redirect exactly when it has browser headers
\* and no password parameter, whatever the id; it has read no row then.
C35_RedirectAnswers ==
    \A p \in Procs :
        Done(p, "GetFile") =>
            /\ (req[p].browser /\ req[p].password = "") <=> resp[p] = Redirect
            /\ resp[p] = Redirect => (loc[p].file = NoFile /\ ~loc[p].counted)
\* The redirect is the answer of the first step of the request, and that
\* step changes neither table nor the upload directory.
C35_RedirectStep ==
    \A p \in Procs :
        (req'[p].kind = "GetFile" /\ pc'[p] = "done" /\ pc[p] # "done"
         /\ resp'[p] = Redirect)
        => /\ pc[p] = "idle"
           /\ UNCHANGED <<files, downloads, disk, nextKey, incs>>

\* C35: GetFile decides the browser redirect before its lookup: a request
\* with browser headers and no password parameter is redirected to the
\* frontend for every id, absent, expired, protected or public, and no state
\* is read or changed.
C35_RedirectBeforeLookup == []C35_RedirectAnswers /\ [][C35_RedirectStep]_vars

\* C35 witness: a browser request without password for a stored object that
\* is protected and expired was answered with the redirect.
C35_Witness ==
    \E p \in Procs :
        /\ Done(p, "GetFile") /\ resp[p] = Redirect
        /\ req[p].browser /\ req[p].password = ""
        /\ Exists(req[p].key) /\ Protected(files[req[p].key])
        /\ now > files[req[p].key].expires_at

\* C36: for an unprotected file one load of the share page starts a bounded
\* number of downloads and then comes to rest: before the downloads it has
\* started reach MaxAttempts the page has no timer armed and no call of
\* checkFileInfo pending.
C36_CycleEnds ==
    page.attempts = MaxAttempts => page.pc \notin {"info", "timer"}

\* Line 129: HasPassword of the FileResponse of an upload.
ReportedHasPassword(p) == loc[p].hash # NoHash

\* The rows of one upload request: each has a hash exactly when the form's
\* password is not empty, all have the same hash and the same expires_at,
\* and the upload's answer reports the presence of the hash.
C37_BatchRows ==
    \A p \in Procs :
        req[p].kind = "UploadFiles" =>
            \A k \in loc[p].responses :
                Exists(k) =>
                    /\ files[k].password_hash # NoHash <=> req[p].password # ""
                    /\ req[p].password # "" =>
                           Chosen(files[k]) = req[p].password
                    /\ ReportedHasPassword(p) <=> files[k].password_hash # NoHash
                    /\ \A j \in loc[p].responses :
                           Exists(j) =>
                               /\ files[j].password_hash = files[k].password_hash
                               /\ files[j].expires_at = files[k].expires_at
\* The preview the share page receives reports has_password exactly for a
\* row with a hash.
C37_PreviewReports ==
    (page.pc \in {"form", "timer"} /\ Exists(page.key)) =>
        (page.pc = "form" <=> files[page.key].password_hash # NoHash)

\* C37: an upload stores a password hash exactly when a non-empty password
\* is supplied, an empty one gives public objects; all files of one upload
\* request carry the same hash and the same expires_at; and has_password as
\* reported equals the presence of the stored hash.
C37_VerifierIffPassword == C37_BatchRows /\ C37_PreviewReports

\* C37 witness: an upload of two files with a password has answered 200;
\* both rows are stored with the same hash and the same expires_at.
C37_Witness ==
    \E p \in Procs :
        /\ Done(p, "UploadFiles") /\ req[p].password # ""
        /\ resp[p] = Resp(200, "Files uploaded successfully")
        /\ Cardinality(loc[p].responses) = 2
        /\ \A k \in loc[p].responses :
              /\ Exists(k) /\ files[k].password_hash # NoHash
              /\ files[k].expires_at = loc[p].expiresAt

====
